---- MODULE Spec2Model ----
(***************************************************************************)
(* Model of gcode_maze.py: PathPart, MazeMakerBase (_cell_step, _grow,     *)
(* _make_maze), RectangularMazeMaker.make_maze and                         *)
(* CircularMazeMaker.make_maze / _check_points.                            *)
(*                                                                         *)
(* Cells are pairs <<row, col>>.  The numpy array self.cells is a function *)
(* row -> (col -> value), both 0-based.  A direction string such as "EEE"  *)
(* is the sequence <<"E","E","E">>.                                        *)
(***************************************************************************)
EXTENDS Integers, Sequences, FiniteSets, TLC

(* ------------------------------ bounds --------------------------------- *)
\* largest rows / cols of a rectangular maze that is grown
MaxRows == 3
MaxCols == 3
\* largest rows * cols of a rectangular maze that is grown
MaxArea == 9
\* largest side of an explicit centre_void tuple
MaxVoid == 2
\* the non-zero straight_on_bias and direction_bias entry that are tried
MaxBias == 1
\* largest layers / inner_layer_cells of a circular maze that is grown
MaxLayers == 3
MaxInner == 3
\* largest circular centre_void
MaxVoidLayers == 1
\* largest number of cells in the layers of a circular maze that is grown
MaxCells == 12
\* number of add_step calls made on a free-standing PathPart
MaxSteps == 4
\* largest step_size of a job
MaxStepSize == 5
\* largest number of depth-of-cut passes of a job
MaxPasses == 2
\* largest sizes of the mazes that are grown and then written as G-code
GcodeMaxRows == 2
GcodeMaxCols == 3
GcodeMaxLayers == 2
GcodeMaxInner == 3
\* largest sizes for which only the grid setup of make_maze is run
SetupMaxRows == 6
SetupMaxCols == 6
SetupMaxLayers == 3
SetupMaxInner == 6

(* 355/113 > pi > 333/106; pi only enters through floor((l + r) // r)      *)
PiNum == 355
PiDen == 113
PiLowNum == 333
PiLowDen == 106

(* the arguments of make_gcode in make_rectangular.py / make_circular.py   *)
ClearanceHeight == 2
SpindleSpeed == 8200
PlungeRate == 300
FeedRate == 300

VARIABLES cfg, cells, cells_in_layer, stack, paths, found_exit, last_move, pc, added,
          job, f

vars == <<cfg, cells, cells_in_layer, stack, paths, found_exit, last_move, pc, added,
          job, f>>

(* ------------------------------ cell values ---------------------------- *)
\* line 193: 0=unvisited, 1=visited, 2=exit
Unvisited == 0
Visited == 1
Exit == 2

(* ---------------------------- python helpers --------------------------- *)
\* marker for a lookup that raises IndexError
Err == 0 - 1

\* python / numpy index normalisation: negative indices count from the end
PyIdx(i, n) ==
    IF 0 <= i /\ i < n THEN i
    ELSE IF 0 - n <= i /\ i < 0 THEN i + n
    ELSE Err

NRows(c) == Cardinality(DOMAIN c)

NCols(c) == IF NRows(c) = 0 THEN 0 ELSE Cardinality(DOMAIN c[0])

InRange(c, cell) ==
    /\ PyIdx(cell[1], NRows(c)) # Err
    /\ PyIdx(cell[2], NCols(c)) # Err

\* self.cells[cell]  (Err when numpy raises IndexError)
Get(c, cell) ==
    IF InRange(c, cell)
    THEN c[PyIdx(cell[1], NRows(c))][PyIdx(cell[2], NCols(c))]
    ELSE Err

\* self.cells[cell] = v, for a cell that is in range
Put(c, cell, v) ==
    [c EXCEPT ![PyIdx(cell[1], NRows(c))][PyIdx(cell[2], NCols(c))] = v]

\* np.zeros((nr, nc))
Zeros(nr, nc) == [r \in 0..(nr - 1) |-> [k \in 0..(nc - 1) |-> Unvisited]]

\* list[i] on a python list held as a 1-based sequence
PyList(s, i) == s[PyIdx(i, Len(s)) + 1]

Last(s) == s[Len(s)]

ButLast(s) == SubSeq(s, 1, Len(s) - 1)

\* s * n for a string s
RECURSIVE Repeat(_, _)
Repeat(s, n) == IF n <= 0 THEN <<>> ELSE s \o Repeat(s, n - 1)

\* python's  s in t  for strings with len(s) <= 1
InString(s, t) ==
    \/ Len(s) = 0
    \/ \E i \in 1..Len(t) : t[i] = s[1]

(* ------------------------------ PathPart ------------------------------- *)
PathPart(start_cell) == [start_cell |-> start_cell, steps |-> <<>>]

\* an add_step that never merges into the last run
add_step_NoMerge(p, direction) == [p EXCEPT !.steps = Append(@, direction)]

add_step(p, direction) ==
    IF Len(p.steps) = 0
    THEN [p EXCEPT !.steps = <<direction>>]
    ELSE IF <<Last(Last(p.steps))>> = direction
         THEN [p EXCEPT !.steps[Len(p.steps)] = @ \o direction]
         ELSE [p EXCEPT !.steps = Append(@, direction)]

(* --------------------------- configurations ---------------------------- *)
None == <<>>

NoBias == [is_none |-> TRUE, bias |-> {}]

\* a dict {d: b} as the set of its items
Dict(d, b) == [is_none |-> FALSE, bias |-> {<<d, b>>}]

\* direction_bias.get(pt, 0)
BiasGet(db, pt) ==
    IF \E it \in db.bias : it[1] = pt
    THEN (CHOOSE it \in db.bias : it[1] = pt)[2]
    ELSE 0

RectConfig(rows, cols, end_type, centre_void, sob, db) ==
    [topology |-> "rect", rows |-> rows, cols |-> cols, end_type |-> end_type,
     centre_void |-> centre_void, straight_on_bias |-> sob, direction_bias |-> db,
     layers |-> 0, inner_layer_cells |-> 0, void_layers |-> 0]

CircConfig(layers, inner_layer_cells, void_layers, sob, db) ==
    [topology |-> "circ", rows |-> 0, cols |-> 0, end_type |-> "side",
     centre_void |-> None, straight_on_bias |-> sob, direction_bias |-> db,
     layers |-> layers, inner_layer_cells |-> inner_layer_cells,
     void_layers |-> void_layers]

VoidChoices == {None} \cup {<<h, w>> : h \in 1..MaxVoid, w \in 1..MaxVoid}

StraightOnBiases == {0, MaxBias}

RectBiases == {NoBias, Dict("N", MaxBias)}

CircBiases == {NoBias, Dict("A", MaxBias)}

RectConfigs ==
    {c \in {RectConfig(r, k, e, v, s, d) :
                r \in 0..MaxRows, k \in 0..MaxCols, e \in {"side", "centre"},
                v \in VoidChoices, s \in StraightOnBiases, d \in RectBiases} :
        c.rows * c.cols <= MaxArea}

(* ------------------- topology: directions and offsets ------------------ *)
_directions(c) ==
    IF c.topology = "rect" THEN <<"N", "S", "W", "E">> ELSE <<"A", "C", "I", "O">>

RectCheckPoints == <<<<0 - 1, 0>>, <<1, 0>>, <<0, 0 - 1>>, <<0, 1>>>>

\* int(a * b / n) for non-negative a, b and n > 0
Scale(a, b, n) == (a * b) \div n

\* what _check_points yields when it raises (IndexError on cells_in_layer
\* or ZeroDivisionError)
NoPoints == <<>>

\* CircularMazeMaker._check_points for the stack top  top
CircCheckPoints(cil, top) ==
    LET from_layer == top[1] - 1
        from_cell == top[2]
        ok == /\ PyIdx(from_layer, Len(cil)) # Err
              /\ (from_layer > 0 => PyIdx(from_layer - 1, Len(cil)) # Err)
              /\ PyIdx(from_layer + 1, Len(cil)) # Err
    IN  IF ~ok THEN NoPoints
        ELSE LET n_in_from == PyList(cil, from_layer) IN
             IF n_in_from = 0 THEN NoPoints
             ELSE LET a == <<0, IF from_cell > 0 THEN 0 - 1 ELSE n_in_from - 1>>
                      c == <<0, IF from_cell < n_in_from - 1 THEN 1 ELSE 1 - n_in_from>>
                      i == IF from_layer > 0
                           THEN <<0 - 1, Scale(PyList(cil, from_layer - 1), from_cell, n_in_from) - from_cell>>
                           ELSE <<0, 0>>
                      o == <<1, Scale(PyList(cil, from_layer + 1), from_cell, n_in_from) - from_cell>>
                  IN  <<a, c, i, o>>

_check_points(c, cil, top) ==
    IF c.topology = "rect" THEN RectCheckPoints ELSE CircCheckPoints(cil, top)

DirIndex(c, d) == CHOOSE i \in 1..4 : _directions(c)[i] = d

\* self._dir_to_delta[direction]
_dir_to_delta(c, cil, top, d) == _check_points(c, cil, top)[DirIndex(c, d)]

Plus(cell, off) == <<cell[1] + off[1], cell[2] + off[2]>>

(* ------------------ RectangularMazeMaker.make_maze setup --------------- *)
mid_col(c) == (c.cols + 1) \div 2

\* the centre_void tuple used by make_maze (lines 205-208)
VoidSize(c) ==
    IF c.centre_void = None
    THEN <<2 + (c.rows % 2), 2 + (c.cols % 2)>>
    ELSE c.centre_void

HasVoid(c) == c.centre_void # None \/ c.end_type = "centre"

\* a void that is pushed to the bottom instead of centred
top_row_NotHalved(c) == (c.rows - VoidSize(c)[1]) + 1

top_row(c) == (c.rows - VoidSize(c)[1]) \div 2 + 1

left_col(c) == (c.cols - VoidSize(c)[2]) \div 2 + 1

\* the cells written by the loops of lines 211-215, in the order written
VoidCell(c, k) ==
    <<top_row(c) + (k \div VoidSize(c)[2]), left_col(c) + (k % VoidSize(c)[2])>>

VoidCount(c) == IF HasVoid(c) THEN VoidSize(c)[1] * VoidSize(c)[2] ELSE 0

VoidCells(c) == {VoidCell(c, k) : k \in 0..(VoidCount(c) - 1)}

\* lines 194-198
BorderedGrid(c) ==
    [r \in 0..(c.rows + 1) |->
        [k \in 0..(c.cols + 1) |->
            IF r = 0 \/ k = 0 \/ r = c.rows + 1 \/ k = c.cols + 1
            THEN Visited ELSE Unvisited]]

\* number of void cells written before the loop raises IndexError
VoidWritten(c) ==
    LET g == BorderedGrid(c)
        bad == {k \in 0..(VoidCount(c) - 1) : ~InRange(g, VoidCell(c, k))}
    IN  IF bad = {} THEN VoidCount(c)
        ELSE CHOOSE k \in bad : \A j \in bad : k <= j

\* lines 204-215
VoidedGrid(c) ==
    LET g == BorderedGrid(c) IN
    [r \in DOMAIN g |->
        [k \in DOMAIN g[r] |->
            IF \E j \in 0..(VoidWritten(c) - 1) :
                  /\ PyIdx(VoidCell(c, j)[1], NRows(g)) = r
                  /\ PyIdx(VoidCell(c, j)[2], NCols(g)) = k
            THEN Visited ELSE g[r][k]]]

\* lines 217-220
RectExitCell(c) ==
    IF c.end_type = "centre"
    THEN <<top_row(c) + VoidSize(c)[1] - 1, mid_col(c)>>
    ELSE <<c.rows + 1, mid_col(c) + ((c.cols - 1) % 2)>>

(* ------------------- CircularMazeMaker.make_maze setup ----------------- *)
\* int((l + inner_r) // inner_r) with inner_r = v + n / (2 pi), pi = pn / pd
LayerRatioWith(pn, pd, l, v, n) ==
    (2 * pn * (l + v) + n * pd) \div (2 * pn * v + n * pd)

\* the ratio rounded to the nearest integer instead of floored
LayerRatio_Rounded(l, v, n) ==
    (2 * (2 * PiNum * (l + v) + n * PiDen) + (2 * PiNum * v + n * PiDen))
        \div (2 * (2 * PiNum * v + n * PiDen))

LayerRatio(l, v, n) == LayerRatioWith(PiNum, PiDen, l, v, n)

\* line 333
LayerCells(c) ==
    [l \in 1..c.layers |->
        c.inner_layer_cells * LayerRatio(l - 1, c.void_layers, c.inner_layer_cells)]

\* lines 333-335
CellsInLayer(c) == Append(LayerCells(c), Last(LayerCells(c)))

\* inner_r = 0 makes (l + inner_r) // inner_r raise ZeroDivisionError
CircSetupRaises(c) ==
    \/ c.void_layers = 0 /\ c.inner_layer_cells = 0 /\ c.layers >= 1
    \/ c.layers <= 0

\* number of cells of the layers of a circular maze (0 when setup raises)
RECURSIVE SumTo(_, _)
SumTo(s, n) == IF n = 0 THEN 0 ELSE s[n] + SumTo(s, n - 1)

LayerCellTotal(c) == IF CircSetupRaises(c) THEN 0 ELSE SumTo(LayerCells(c), c.layers)

CircConfigs ==
    {c \in {CircConfig(l, n, v, s, d) :
                l \in 0..MaxLayers, n \in 0..MaxInner, v \in 0..MaxVoidLayers,
                s \in StraightOnBiases, d \in CircBiases} :
        LayerCellTotal(c) <= MaxCells}

\* lines 340-342
CircGrid(c) ==
    [r \in 0..(c.layers + 1) |->
        [k \in 0..(Last(CellsInLayer(c)) - 1) |->
            IF r = 0 \/ r = c.layers + 1 THEN Visited ELSE Unvisited]]

\* lines 344, 347
CircExitCell(c) == <<c.layers + 1, Last(CellsInLayer(c)) \div 2>>

(* ------------------------- shared by both setups ----------------------- *)
ExitCell(c) == IF c.topology = "rect" THEN RectExitCell(c) ELSE CircExitCell(c)

EntranceCell(c) == IF c.topology = "rect" THEN <<0, mid_col(c)>> ELSE <<0, 0>>

EntryDirection(c) == IF c.topology = "rect" THEN <<"S">> ELSE <<"O">>

(* ------------------------------- states -------------------------------- *)
\* the object after __init__
Constructed(c) ==
    /\ cfg = c
    /\ cells = Zeros(0, 0)
    /\ cells_in_layer = <<>>
    /\ stack = <<>>
    /\ paths = <<>>
    /\ found_exit = FALSE
    /\ last_move = <<>>
    /\ pc = "new"
    /\ added = <<>>
    /\ job = None
    /\ f = <<>>

Init == \E c \in RectConfigs \cup CircConfigs : Constructed(c)

\* make_maze of RectangularMazeMaker up to the call of _make_maze
SetupRect ==
    /\ pc = "new"
    /\ cfg.topology = "rect"
    /\ IF VoidWritten(cfg) < VoidCount(cfg) \/ ~InRange(VoidedGrid(cfg), RectExitCell(cfg))
       THEN /\ cells' = VoidedGrid(cfg)
            /\ pc' = "error"
       ELSE /\ cells' = Put(VoidedGrid(cfg), RectExitCell(cfg), Exit)
            /\ pc' = "setup"
    /\ UNCHANGED <<cfg, cells_in_layer, stack, paths, found_exit, last_move, added, job, f>>

\* make_maze of CircularMazeMaker up to the call of _make_maze
SetupCirc ==
    /\ pc = "new"
    /\ cfg.topology = "circ"
    /\ IF CircSetupRaises(cfg)
       THEN /\ cells' = cells
            /\ cells_in_layer' = <<>>
            /\ pc' = "error"
       ELSE /\ cells_in_layer' = CellsInLayer(cfg)
            /\ IF InRange(CircGrid(cfg), CircExitCell(cfg))
               THEN /\ cells' = Put(CircGrid(cfg), CircExitCell(cfg), Exit)
                    /\ pc' = "setup"
               ELSE /\ cells' = CircGrid(cfg)
                    /\ pc' = "error"
    /\ UNCHANGED <<cfg, stack, paths, found_exit, last_move, added, job, f>>

(* ----------------------------- MazeMakerBase --------------------------- *)
\* the values of the grid around  top , in _check_points order
\* (Err for a lookup that raises)
Look(c, cil, g, top, i) ==
    IF _check_points(c, cil, top) = NoPoints THEN Err
    ELSE Get(g, Plus(top, _check_points(c, cil, top)[i]))

IsUnvisited(v) == v = Unvisited

\* first index of the scan whose lookup finds the value  want  or raises;
\* 0 if there is none
FirstHit(c, cil, g, top, want) ==
    LET S == {i \in 1..4 : Look(c, cil, g, top, i) = Err \/ Look(c, cil, g, top, i) = want}
    IN  IF S = {} THEN 0 ELSE CHOOSE i \in S : \A j \in S : i <= j

\* a termination test that also stops one cell too early
AtBase_Early(s) == Len(s) <= 3

\* a termination test that lets the first cell be popped
AtBase_Late(s) == Len(s) = 1

\* line 98
AtBase(s) == Len(s) = 2

\* lines 63-66: the entries one direction contributes to direction_options
OptionEntries(c, pt) ==
    IF c.direction_bias.is_none
    THEN <<pt>>
    ELSE Repeat(<<pt>>, BiasGet(c.direction_bias, pt) + 1)

\* lines 60-66
RECURSIVE OptionsFrom(_, _, _, _, _)
OptionsFrom(c, cil, g, top, i) ==
    IF i > 4 THEN <<>>
    ELSE (IF IsUnvisited(Look(c, cil, g, top, i))
          THEN OptionEntries(c, _directions(c)[i])
          ELSE <<>>) \o OptionsFrom(c, cil, g, top, i + 1)

\* a straight-on bias that is added whether or not the last move is an option
WithStraightOn_Always(c, lm, opts) ==
    IF c.straight_on_bias > 0
    THEN opts \o Repeat(lm, c.straight_on_bias)
    ELSE opts

\* lines 69-70
WithStraightOn(c, lm, opts) ==
    IF c.straight_on_bias > 0 /\ InString(lm, opts)
    THEN opts \o Repeat(lm, c.straight_on_bias)
    ELSE opts

direction_options(c, cil, g, top, lm) ==
    IF Len(OptionsFrom(c, cil, g, top, 1)) > 0
    THEN WithStraightOn(c, lm, OptionsFrom(c, cil, g, top, 1))
    ELSE <<>>

\* the ghost record of add_step calls: one list of directions per fragment
Noted(a, direction) == [a EXCEPT ![Len(a)] = @ \o direction]

\* the attributes of the maze maker that growth changes
Here ==
    [cells |-> cells, stack |-> stack, paths |-> paths, found_exit |-> found_exit,
     last_move |-> last_move, pc |-> pc, added |-> added]

Become(n) ==
    /\ cells' = n.cells
    /\ stack' = n.stack
    /\ paths' = n.paths
    /\ found_exit' = n.found_exit
    /\ last_move' = n.last_move
    /\ pc' = n.pc
    /\ added' = n.added

\* _cell_step(direction): add_step, push, mark; an IndexError leaves the
\* assignments made before it
_cell_step(c, cil, m, direction) ==
    LET top == Last(m.stack)
        stepped == [m EXCEPT !.paths[Len(m.paths)] = add_step(@, direction),
                             !.added = Noted(@, direction)]
    IN  IF _check_points(c, cil, top) = NoPoints
        THEN [stepped EXCEPT !.pc = "error"]
        ELSE LET to_cell == Plus(top, _dir_to_delta(c, cil, top, direction[1]))
                 pushed == [stepped EXCEPT !.stack = Append(@, to_cell)]
             IN  IF InRange(m.cells, to_cell)
                 THEN [pushed EXCEPT !.cells = Put(@, to_cell, Visited)]
                 ELSE [pushed EXCEPT !.pc = "error"]

\* _make_maze, lines 82-88: the forced first step
Started(c, cil, m) ==
    LET begun == [m EXCEPT !.stack = <<EntranceCell(c)>>,
                           !.paths = <<PathPart(EntranceCell(c))>>,
                           !.added = <<<<>>>>]
        first == _cell_step(c, cil, begun, EntryDirection(c))
    IN  IF first.pc = "error" THEN first
        ELSE [first EXCEPT !.found_exit = FALSE, !.last_move = <<>>, !.pc = "growing"]

\* lines 52-56: the exit is adjacent at index e, leave a stump
FoundExit(c, m, e) ==
    [m EXCEPT !.found_exit = TRUE,
              !.paths[Len(m.paths)] = add_step(@, <<_directions(c)[e]>>),
              !.added = Noted(@, <<_directions(c)[e]>>),
              !.pc = "backtracking"]

\* a move that pushes and marks the cell but is not recorded in the fragment
Moved_Unrecorded(c, cil, m, opts, k) ==
    LET stepped == _cell_step(c, cil, m, <<opts[k]>>)
    IN  IF stepped.pc = "error" THEN stepped
        ELSE [stepped EXCEPT !.paths = m.paths, !.added = m.added,
                             !.last_move = <<opts[k]>>]

\* lines 72-76: the move drawn is entry k of direction_options
Moved(c, cil, m, opts, k) ==
    LET stepped == _cell_step(c, cil, m, <<opts[k]>>)
    IN  IF stepped.pc = "error" THEN stepped
        ELSE [stepped EXCEPT !.last_move = <<opts[k]>>]

\* the possible results of one call of _grow
Grown(c, cil, m) ==
    LET top == Last(m.stack)
        e == IF m.found_exit THEN 0 ELSE FirstHit(c, cil, m.cells, top, Exit)
        raises == \E i \in 1..4 : Look(c, cil, m.cells, top, i) = Err
        opts == direction_options(c, cil, m.cells, top, m.last_move)
    IN  IF e # 0
        THEN IF Look(c, cil, m.cells, top, e) = Err
             THEN {[m EXCEPT !.pc = "error"]}
             ELSE {FoundExit(c, m, e)}
        ELSE IF raises
             THEN {[m EXCEPT !.pc = "error"]}
             ELSE IF Len(opts) > 0
                  THEN {Moved(c, cil, m, opts, k) : k \in 1..Len(opts)}
                  ELSE {[m EXCEPT !.pc = "backtracking"]}

\* a pass that steps back even when it starts a new fragment
Backtracked_PopsBranch(c, cil, m) ==
    IF AtBase(m.stack)
    THEN [m EXCEPT !.pc = "done"]
    ELSE LET check_cell == Last(m.stack)
             u == FirstHit(c, cil, m.cells, check_cell, Unvisited)
         IN  IF u = 0
             THEN [m EXCEPT !.stack = ButLast(@)]
             ELSE IF Look(c, cil, m.cells, check_cell, u) = Err
                  THEN [m EXCEPT !.pc = "error"]
                  ELSE [m EXCEPT !.stack = ButLast(@),
                                 !.paths = Append(@, PathPart(check_cell)),
                                 !.added = Append(@, <<>>),
                                 !.pc = "growing"]

\* the result of one pass of the loop of lines 97-109
Backtracked(c, cil, m) ==
    IF AtBase(m.stack)
    THEN [m EXCEPT !.pc = "done"]
    ELSE LET check_cell == Last(m.stack)
             u == FirstHit(c, cil, m.cells, check_cell, Unvisited)
         IN  IF u = 0
             THEN [m EXCEPT !.stack = ButLast(@)]
             ELSE IF Look(c, cil, m.cells, check_cell, u) = Err
                  THEN [m EXCEPT !.pc = "error"]
                  ELSE [m EXCEPT !.paths = Append(@, PathPart(check_cell)),
                                 !.added = Append(@, <<>>),
                                 !.pc = "growing"]

StartMaze ==
    /\ pc = "setup"
    /\ Become(Started(cfg, cells_in_layer, Here))
    /\ UNCHANGED <<cfg, cells_in_layer, job, f>>

Grow ==
    /\ pc = "growing"
    /\ \E n \in Grown(cfg, cells_in_layer, Here) : Become(n)
    /\ UNCHANGED <<cfg, cells_in_layer, job, f>>

Backtrack ==
    /\ pc = "backtracking"
    /\ Become(Backtracked(cfg, cells_in_layer, Here))
    /\ UNCHANGED <<cfg, cells_in_layer, job, f>>

Next == SetupRect \/ SetupCirc \/ StartMaze \/ Grow \/ Backtrack

Spec == Init /\ [][Next]_vars

(* ---------------- grid setup alone, for larger configurations ---------- *)
SetupConfigs ==
    {RectConfig(r, c, e, v, 0, NoBias) :
        r \in 0..SetupMaxRows, c \in 0..SetupMaxCols, e \in {"side", "centre"},
        v \in VoidChoices}
    \cup
    {CircConfig(l, n, v, 0, NoBias) :
        l \in 0..SetupMaxLayers, n \in 0..SetupMaxInner, v \in 0..MaxVoidLayers}

SetupInit == \E c \in SetupConfigs : Constructed(c)

SetupNext == SetupRect \/ SetupCirc

SetupSpec == SetupInit /\ [][SetupNext]_vars

(* ---------------- a free-standing PathPart under add_step -------------- *)
PathInit ==
    /\ cfg \in {RectConfig(2, 4, "side", None, 0, NoBias), CircConfig(2, 3, 1, 0, NoBias)}
    /\ cells = Zeros(0, 0)
    /\ cells_in_layer = (IF cfg.topology = "rect" THEN <<>> ELSE CellsInLayer(cfg))
    /\ stack = <<>>
    /\ \E start_cell \in {EntranceCell(cfg), <<1, 0>>} : paths = <<PathPart(start_cell)>>
    /\ found_exit = FALSE
    /\ last_move = <<>>
    /\ pc = "path"
    /\ added = <<<<>>>>
    /\ job = None
    /\ f = <<>>

AddStep ==
    /\ pc = "path"
    /\ Len(added[1]) < MaxSteps
    /\ \E i \in 1..4 :
          /\ paths' = [paths EXCEPT ![1] = add_step(@, <<_directions(cfg)[i]>>)]
          /\ added' = Noted(added, <<_directions(cfg)[i]>>)
    /\ UNCHANGED <<cfg, cells, cells_in_layer, stack, found_exit, last_move, pc, job, f>>

(* ------------------------ numbers and G-code text ---------------------- *)
\* The numbers that reach the encoder are multiples of 1/2.  A number is held
\* as twice its value together with its python type, which decides how it
\* prints (15 or 15.0, 7.5).
PyInt(n) == [twice |-> 2 * n, float |-> FALSE]

PyFloat(h) == [twice |-> h, float |-> TRUE]

\* a - b
Minus(a, b) == [twice |-> a.twice - b.twice, float |-> a.float \/ b.float]

Abs(n) == IF n < 0 THEN 0 - n ELSE n

\* the text "{a}" of a number: sign, integer digits, fraction digit
Str(a) ==
    [minus |-> a.twice < 0,
     whole |-> Abs(a.twice) \div 2,
     frac |-> IF a.float THEN (IF Abs(a.twice) % 2 = 1 THEN "5" ELSE "0") ELSE ""]

\* one word of a line: a letter, the text the template puts before the
\* number, and the number's text.  A line is the sequence of its words (the
\* blanks between them are not modelled); the empty line is <<>>.
Word(letter, a) == [letter |-> letter, lead |-> "", text |-> Str(a)]

Code(letter, n) == Word(letter, PyInt(n))

(* ------------------- RectangularMazeMaker: the encoder ----------------- *)
RectKeys == {"N", "S", "E", "W", "A", "B", "C", "D"}

\* a table in which north and south are exchanged
gcode_steps_Swapped(d) ==
    IF d = "S" THEN <<[letter |-> "Y", lead |-> "-"]>>
    ELSE IF d = "N" THEN <<[letter |-> "Y", lead |-> ""]>>
    ELSE IF d = "E" THEN <<[letter |-> "X", lead |-> ""]>>
    ELSE <<[letter |-> "X", lead |-> "-"]>>

\* lines 182-183: the templates, as (letter, text before {length}) pairs
gcode_steps(d) ==
    IF d = "N" THEN <<[letter |-> "Y", lead |-> "-"]>>
    ELSE IF d = "S" THEN <<[letter |-> "Y", lead |-> ""]>>
    ELSE IF d = "E" THEN <<[letter |-> "X", lead |-> ""]>>
    ELSE IF d = "W" THEN <<[letter |-> "X", lead |-> "-"]>>
    ELSE IF d = "A" THEN <<[letter |-> "X", lead |-> ""], [letter |-> "Y", lead |-> "-"]>>
    ELSE IF d = "B" THEN <<[letter |-> "X", lead |-> ""], [letter |-> "Y", lead |-> ""]>>
    ELSE IF d = "C" THEN <<[letter |-> "X", lead |-> "-"], [letter |-> "Y", lead |-> ""]>>
    ELSE <<[letter |-> "X", lead |-> "-"], [letter |-> "Y", lead |-> "-"]>>

\* template.format(length=n)
Format(template, a) ==
    [k \in 1..Len(template) |->
        [letter |-> template[k].letter, lead |-> template[k].lead, text |-> Str(a)]]

\* lines 251-254 (the pair is (x, y))
origin_offset(c, j) ==
    IF j.origin_centre
    THEN <<PyFloat((c.cols - 1) * j.step_size), PyFloat((c.rows - 1) * j.step_size)>>
    ELSE <<PyInt(0), PyInt(0)>>

\* line 260: the absolute start position, as (x, y)
RectStartXY(c, p, j) ==
    <<Minus(PyInt(j.step_size * (p.start_cell[2] - 1)), origin_offset(c, j)[1]),
      Minus(PyInt(j.step_size * (p.start_cell[1] - 1)), origin_offset(c, j)[2])>>

\* a move that ignores the length of the run
RectMove_UnitLength(step, j) ==
    <<Code("G", 1)>> \o Format(gcode_steps(step[1]), PyInt(j.step_size))
        \o <<Word("F", j.feed)>>

\* line 264: the relative move of one run
RectMove(step, j) ==
    <<Code("G", 1)>> \o Format(gcode_steps(step[1]), PyInt(j.step_size * Len(step)))
        \o <<Word("F", j.feed)>>

\* a run of a direction that gcode_steps does not have raises KeyError
RectEncodeRaises(p) == \E k \in 1..Len(p.steps) : p.steps[k][1] \notin RectKeys

\* an encoder without the test for an empty fragment
RectEncodePath_Unguarded(c, p, j, doc) ==
    <<<<Code("G", 90)>>,
      <<Code("G", 0), Word("Z", j.clearance_height)>>,
      <<Code("G", 0), Word("X", RectStartXY(c, p, j)[1]), Word("Y", RectStartXY(c, p, j)[2])>>,
      <<Code("G", 1), Word("Z", doc), Word("F", j.plunge)>>,
      <<Code("G", 91)>>>>
    \o [k \in 1..Len(p.steps) |-> RectMove(p.steps[k], j)]
    \o <<<<Code("G", 90)>>, <<Code("G", 0), Word("Z", j.clearance_height)>>>>

\* RectangularMazeMaker._encode_path, when it does not raise
RectEncodePath(c, p, j, doc) ==
    IF Len(p.steps) > 0
    THEN <<<<Code("G", 90)>>,
           <<Code("G", 0), Word("Z", j.clearance_height)>>,
           <<Code("G", 0), Word("X", RectStartXY(c, p, j)[1]), Word("Y", RectStartXY(c, p, j)[2])>>,
           <<Code("G", 1), Word("Z", doc), Word("F", j.plunge)>>,
           <<Code("G", 91)>>>>
         \o [k \in 1..Len(p.steps) |-> RectMove(p.steps[k], j)]
         \o <<<<Code("G", 90)>>, <<Code("G", 0), Word("Z", j.clearance_height)>>>>
    ELSE <<>>

(* -------------------- CircularMazeMaker: the encoder ------------------- *)
\* An angle is a fraction of a turn <<num, den>> (theta = 2 pi num / den).  A
\* point of the plane is held in polar form: layer k at turn t is
\* x = sin(theta) (inner_r + k) step_size, y = cos(theta) (inner_r + k) step_size.
SameTurn(s, t) == s[1] * t[2] = t[1] * s[2]

\* t + 2 pi k / n
TurnPlus(t, k, n) == <<t[1] * n + k * t[2], t[2] * n>>

Polar(layer, turn) == [layer |-> layer, turn |-> turn, skew |-> <<>>]

\* lines 401-402: the point moved by del layers along the heading theta
Shifted(pt, del, theta) ==
    IF pt.skew = <<>> /\ SameTurn(pt.turn, theta)
    THEN [pt EXCEPT !.layer = @ + del]
    ELSE [pt EXCEPT !.skew = Append(@, <<del, theta>>)]

\* words for a point: X and Y as printed by fmt, or I and J of its negative
XY(pt, fmt) ==
    <<[letter |-> "X", lead |-> "", text |-> [of |-> "sin", point |-> pt, fmt |-> fmt]],
      [letter |-> "Y", lead |-> "", text |-> [of |-> "cos", point |-> pt, fmt |-> fmt]]>>

IJ(pt) ==
    <<[letter |-> "I", lead |-> "", text |-> [of |-> "-sin", point |-> pt, fmt |-> ".3f"]],
      [letter |-> "J", lead |-> "", text |-> [of |-> "-cos", point |-> pt, fmt |-> ".3f"]]>>

\* the encoder state  last = (x, y, theta, layer)
CircStart(cil, p) ==
    LET r == p.start_cell[1]
        theta == <<p.start_cell[2], PyList(cil, r - 1)>>
    IN  [xy |-> Polar(r - 1, theta), theta |-> theta, layer |-> r - 1]

\* lines 394-416: the state after one run
CircAfter(cil, last, step) ==
    IF step[1] \in {"I", "O"}
    THEN LET del_layers == IF step[1] = "O" THEN Len(step) ELSE 0 - Len(step)
         IN  [xy |-> Shifted(last.xy, del_layers, last.theta), theta |-> last.theta,
              layer |-> last.layer + del_layers]
    ELSE IF step[1] \in {"A", "C"}
    THEN LET s == IF step[1] = "C" THEN 1 ELSE 0 - 1
             theta == TurnPlus(last.theta, s * Len(step), PyList(cil, last.layer))
         IN  [xy |-> Polar(last.layer, theta), theta |-> theta, layer |-> last.layer]
    ELSE last

\* the state before run k of the fragment (k = Len + 1: after the last run)
RECURSIVE CircLast(_, _, _)
CircLast(cil, p, k) ==
    IF k = 1 THEN CircStart(cil, p)
    ELSE CircAfter(cil, CircLast(cil, p, k - 1), p.steps[k - 1])

\* lines 403, 415: the lines one run appends (none for an unknown direction)
CircMove(cil, last, step, j) ==
    IF step[1] \in {"I", "O"}
    THEN <<<<Code("G", 1)>> \o XY(CircAfter(cil, last, step).xy, ".3f") \o <<Word("F", j.feed)>>>>
    ELSE IF step[1] \in {"A", "C"}
    THEN <<<<Code("G", IF step[1] = "C" THEN 2 ELSE 3)>>
            \o XY(CircAfter(cil, last, step).xy, ".3f") \o IJ(last.xy) \o <<Word("F", j.feed)>>>>
    ELSE <<>>

RECURSIVE CircMoves(_, _, _, _)
CircMoves(cil, p, j, k) ==
    IF k > Len(p.steps) THEN <<>>
    ELSE CircMove(cil, CircLast(cil, p, k), p.steps[k], j) \o CircMoves(cil, p, j, k + 1)

\* IndexError or ZeroDivisionError on self.cells_in_layer[i] (lines 385, 410)
BadLayer(cil, i) == PyIdx(i, Len(cil)) = Err \/ PyList(cil, i) = 0

RECURSIVE CircRaisesFrom(_, _, _)
CircRaisesFrom(cil, p, k) ==
    IF k > Len(p.steps) THEN FALSE
    ELSE IF p.steps[k][1] \in {"A", "C"} /\ BadLayer(cil, CircLast(cil, p, k).layer)
         THEN TRUE
         ELSE CircRaisesFrom(cil, p, k + 1)

CircEncodeRaises(cil, p) ==
    /\ Len(p.steps) > 0
    /\ BadLayer(cil, p.start_cell[1] - 1) \/ CircRaisesFrom(cil, p, 1)

\* CircularMazeMaker._encode_path, when it does not raise
CircEncodePath(cil, p, j, doc) ==
    IF Len(p.steps) > 0
    THEN <<<<Code("G", 90)>>,
           <<Code("G", 0), Word("Z", j.clearance_height)>>,
           <<Code("G", 0)>> \o XY(CircStart(cil, p).xy, ""),
           <<Code("G", 1), Word("Z", doc), Word("F", j.plunge)>>>>
         \o CircMoves(cil, p, j, 1)
         \o <<<<Code("G", 0), Word("Z", j.clearance_height)>>>>
    ELSE <<>>

EncodeRaises(c, cil, p) ==
    IF c.topology = "rect" THEN RectEncodeRaises(p) ELSE CircEncodeRaises(cil, p)

_encode_path(c, cil, p, j, doc) ==
    IF c.topology = "rect" THEN RectEncodePath(c, p, j, doc) ELSE CircEncodePath(cil, p, j, doc)

(* ------------------------------ the job -------------------------------- *)
\* the arguments of make_gcode
Job(step_size, doc_steps, origin_centre, feed) ==
    [step_size |-> step_size, doc_steps |-> doc_steps,
     clearance_height |-> PyInt(ClearanceHeight), spindle_speed |-> PyInt(SpindleSpeed),
     plunge |-> PyInt(PlungeRate), feed |-> feed, origin_centre |-> origin_centre]

StepSizes == 1..MaxStepSize

\* depths of cut 0.5 and 1
Docs == {PyFloat(1), PyInt(1)}

Feeds == {PyInt(FeedRate), PyInt(2 * FeedRate)}

DocLists == UNION {[1..n -> Docs] : n \in 0..MaxPasses}

\* what f.write('\n'.join(lines)); f.write('\n') adds to the file: the lines,
\* or one empty line when there are none
Written(lines) == IF lines = <<>> THEN <<<<>>>> ELSE lines

\* line 135
start_gcode(j) ==
    <<<<Code("G", 21)>>, <<Code("G", 90)>>,
      <<Code("G", 0), Code("X", 0), Code("Y", 0), Word("Z", j.clearance_height)>>,
      <<Code("M", 3), Word("S", j.spindle_speed)>>>>

\* line 149
park_gcode(j) ==
    <<<<Code("G", 90)>>, <<Code("G", 0), Word("Z", j.clearance_height)>>,
      <<Code("G", 0), Code("X", 0), Code("Y", 0)>>, <<Code("M", 5)>>, <<Code("M", 30)>>>>

\* lines 143-145 for the fragments n..Len(ps)
RECURSIVE Carved(_, _, _, _, _, _)
Carved(c, cil, ps, j, doc, n) ==
    IF n > Len(ps) THEN <<>>
    ELSE Written(_encode_path(c, cil, ps[n], j, doc)) \o Carved(c, cil, ps, j, doc, n + 1)

\* a writer that pauses once, after the last pass
RECURSIVE Passes_OnePause(_, _, _, _, _)
Passes_OnePause(c, cil, ps, j, d) ==
    IF d > Len(j.doc_steps) THEN (IF Len(j.doc_steps) > 0 THEN <<<<Code("M", 0)>>>> ELSE <<>>)
    ELSE Carved(c, cil, ps, j, j.doc_steps[d], 1) \o Passes_OnePause(c, cil, ps, j, d + 1)

\* lines 142-147 for the passes d..len(doc_steps)
RECURSIVE Passes(_, _, _, _, _)
Passes(c, cil, ps, j, d) ==
    IF d > Len(j.doc_steps) THEN <<>>
    ELSE Carved(c, cil, ps, j, j.doc_steps[d], 1) \o <<<<Code("M", 0)>>>>
            \o Passes(c, cil, ps, j, d + 1)

\* the file _make_gcode writes when no fragment raises
GcodeFile(c, cil, ps, j) == start_gcode(j) \o Passes(c, cil, ps, j, 1) \o park_gcode(j)

\* the fragments written before the first one whose encoding raises
Encodable(c, cil, ps) ==
    LET bad == {i \in 1..Len(ps) : EncodeRaises(c, cil, ps[i])}
    IN  IF bad = {} THEN ps
        ELSE SubSeq(ps, 1, (CHOOSE i \in bad : \A k \in bad : i <= k) - 1)

\* make_gcode / _make_gcode: the whole file, or what is written of it when
\* an encoding raises in the first pass
MakeGcode ==
    /\ pc = "done"
    /\ \E j \in {Job(MaxStepSize, d, o, PyInt(FeedRate)) : d \in DocLists, o \in BOOLEAN} :
          /\ job' = j
          /\ IF Len(j.doc_steps) > 0 /\ Encodable(cfg, cells_in_layer, paths) # paths
             THEN /\ f' = start_gcode(j)
                         \o Carved(cfg, cells_in_layer, Encodable(cfg, cells_in_layer, paths),
                                   j, j.doc_steps[1], 1)
                  /\ pc' = "error"
             ELSE /\ f' = GcodeFile(cfg, cells_in_layer, paths, j)
                  /\ pc' = "written"
    /\ UNCHANGED <<cfg, cells, cells_in_layer, stack, paths, found_exit, last_move, added>>

\* small mazes that are grown and then written
GcodeConfigs ==
    {RectConfig(r, k, "side", None, 0, NoBias) : r \in 1..GcodeMaxRows, k \in 1..GcodeMaxCols}
    \cup
    {CircConfig(l, n, 1, 0, NoBias) : l \in 1..GcodeMaxLayers, n \in 1..GcodeMaxInner}

GcodeInit == \E c \in GcodeConfigs : Constructed(c)

GcodeNext == SetupRect \/ SetupCirc \/ StartMaze \/ Grow \/ Backtrack \/ MakeGcode

GcodeSpec == GcodeInit /\ [][GcodeNext]_vars

(* ------------- a free-standing PathPart handed to _encode_path --------- *)
\* _encode_path(p, step_size, doc, clearance_height, plunge, feed, origin_offset)
\* of the fragment built by add_step; f holds the returned list
EncodePath ==
    /\ pc = "path"
    /\ \E s \in StepSizes, doc \in Docs, o \in BOOLEAN, fd \in Feeds :
          /\ job' = Job(s, <<doc>>, o, fd)
          /\ IF EncodeRaises(cfg, cells_in_layer, paths[1])
             THEN f' = f /\ pc' = "error"
             ELSE /\ f' = _encode_path(cfg, cells_in_layer, paths[1], job', doc)
                  /\ pc' = "encoded"
    /\ UNCHANGED <<cfg, cells, cells_in_layer, stack, paths, found_exit, last_move, added>>

PathNext == AddStep \/ EncodePath

PathSpec == PathInit /\ [][PathNext]_vars

(* ------------------------ vocabulary of the claims --------------------- *)
Rect == cfg.topology = "rect"

Circ == cfg.topology = "circ"

\* a configuration the maze makers are meant for
Valid(c) ==
    IF c.topology = "rect"
    THEN /\ c.rows >= 1
         /\ c.cols >= 1
         /\ c.centre_void # None => c.centre_void[1] <= c.rows /\ c.centre_void[2] <= c.cols
    ELSE c.layers >= 1 /\ c.inner_layer_cells >= 1

Growth == pc \in {"growing", "backtracking", "done"}

AllCells == {<<r, k>> : r \in DOMAIN cells, k \in IF NRows(cells) = 0 THEN {} ELSE DOMAIN cells[0]}

ExitCells == {x \in AllCells : cells[x[1]][x[2]] = Exit}

\* the values around a cell, in _check_points order
Around(cell) == {Look(cfg, cells_in_layer, cells, cell, i) : i \in 1..4}

RECURSIVE Flatten(_)
Flatten(steps) == IF steps = <<>> THEN <<>> ELSE steps[1] \o Flatten(Tail(steps))

\* the cells a fragment passes when its directions are replayed from  cell
RECURSIVE Walk(_, _)
Walk(cell, dirs) ==
    IF dirs = <<>> THEN <<>>
    ELSE LET nxt == Plus(cell, _dir_to_delta(cfg, cells_in_layer, cell, dirs[1]))
         IN  <<nxt>> \o Walk(nxt, Tail(dirs))

FragmentWalk(i) == Walk(paths[i].start_cell, Flatten(paths[i].steps))

\* the steps of the fragments that point into the Exit cell
StubSites ==
    UNION {{<<i, j>> : j \in {j \in 1..Len(FragmentWalk(i)) : FragmentWalk(i)[j] = ExitCell(cfg)}} :
              i \in 1..Len(paths)}

TotalSteps == SumTo([i \in 1..Len(added) |-> Len(added[i])], Len(added))

(* ------------------------------- claims -------------------------------- *)
\* a number that every step of _make_maze lowers: each Unvisited cell can be
\* entered once, each stack entry popped once, the exit found once, and
\* between two such steps the loops change phase at most once
Rank ==
    LET unvisited == Cardinality({x \in AllCells : cells[x[1]][x[2]] = Unvisited})
        open == stack # <<>> /\ Unvisited \in Around(Last(stack))
        phase == IF pc = "done" THEN 0
                 ELSE IF pc = "backtracking" THEN (IF open THEN 4 ELSE 1)
                 ELSE IF pc = "growing" THEN (IF open THEN 3 ELSE 2)
                 ELSE 20
    IN  6 * unvisited + 5 * Len(stack) + (IF found_exit THEN 0 ELSE 5) + phase

RectGrowable == Rect /\ cfg.rows >= 1 /\ cfg.cols >= 1

\* C1: for a rectangular maze with rows >= 1 and cols >= 1, _make_maze reaches
\* Done after finitely many steps whatever directions are drawn: until Done a
\* further step is always possible, no step raises, every step lowers Rank
\* (a natural number), and at Done the walk stack has length exactly 2.
C1_Terminates ==
    /\ [](RectGrowable /\ pc = "growing" =>
            /\ Grown(cfg, cells_in_layer, Here) # {}
            /\ Here \notin Grown(cfg, cells_in_layer, Here))
    /\ [](RectGrowable /\ pc = "backtracking" =>
            Backtracked(cfg, cells_in_layer, Here) # Here)
    /\ [][RectGrowable /\ pc \in {"setup", "growing", "backtracking"} =>
            /\ pc' # "error"
            /\ Rank' < Rank
            /\ Rank' >= 0]_vars
    /\ [](RectGrowable /\ pc = "done" => Len(stack) = 2)

\* a finished 3x3 side-exit maze without bias that needed several fragments
C1_Witness ==
    /\ pc = "done"
    /\ cfg = RectConfig(3, 3, "side", None, 0, NoBias)
    /\ Len(stack) = 2
    /\ Len(paths) >= 2

\* C2: after growth of a rectangular maze with rows >= 1 and cols >= 1,
\* exactly one fragment step points into the Exit cell, and that stub is the
\* last step of its fragment.
C2_ExitStubOnce ==
    (pc = "done" /\ RectGrowable)
        => /\ Cardinality(StubSites) = 1
           /\ \A s \in StubSites : s[2] = Len(FragmentWalk(s[1]))

\* C3: from the end of grid setup to the end of growth exactly one cell of
\* the grid is Exit (2), in the rectangular and in the circular topology.
C3_OneExit ==
    (pc \in {"setup", "growing", "backtracking", "done"} /\ Valid(cfg))
        => Cardinality(ExitCells) = 1

\* C4: at Done the stack-top cell (the forced first cell) has no Unvisited
\* neighbour.
C4_NoUnvisitedAtDone ==
    (pc = "done" /\ Valid(cfg)) => Unvisited \notin Around(Last(stack))

\* C5: during growth the walk stack has length >= 2 and the entrance and the
\* forced first cell stay at its first two positions.
C5_StackBase ==
    Growth =>
        /\ Len(stack) >= 2
        /\ stack[1] = EntranceCell(cfg)
        /\ stack[2] = Plus(EntranceCell(cfg),
                           _dir_to_delta(cfg, cells_in_layer, EntranceCell(cfg),
                                         EntryDirection(cfg)[1]))

\* backtracking has popped the stack all the way down to the first cell
C5_Witness ==
    /\ pc = "backtracking"
    /\ Len(stack) = 2
    /\ TotalSteps >= 4
    /\ Valid(cfg)

\* the boundary rows / edges of the grid (lines 195-198 and 341-342)
Boundary(x) ==
    IF Rect
    THEN x[1] = 0 \/ x[2] = 0 \/ x[1] = cfg.rows + 1 \/ x[2] = cfg.cols + 1
    ELSE x[1] = 0 \/ x[1] = cfg.layers + 1

\* C6: after grid setup the only change a step makes to the grid is turning
\* one Unvisited cell into Visited (so no cell goes back to Unvisited), and
\* every boundary cell other than the Exit stays Visited.
C6_MonotoneGrid ==
    [][(pc \in {"setup", "growing", "backtracking"} /\ Valid(cfg)) =>
          /\ \/ cells' = cells
             \/ \E x \in AllCells :
                   /\ cells[x[1]][x[2]] = Unvisited
                   /\ cells' = Put(cells, x, Visited)
          /\ \A x \in AllCells :
                Boundary(x) /\ x # ExitCell(cfg) => cells'[x[1]][x[2]] = Visited]_vars

\* C7: after any sequence of add_step calls every run of a fragment repeats
\* one direction symbol, adjacent runs have different symbols, and the runs
\* concatenated are the directions that were appended.
C7_RunsMerged ==
    \A i \in 1..Len(paths) :
        LET st == paths[i].steps IN
        /\ \A r \in 1..Len(st) :
              /\ Len(st[r]) >= 1
              /\ \A j \in 1..Len(st[r]) : st[r][j] = st[r][1]
        /\ \A r \in 1..(Len(st) - 1) : st[r][1] # st[r + 1][1]
        /\ Flatten(st) = added[i]

\* a fragment with several runs, one of them merged from repeated directions
C7_Witness ==
    /\ pc = "path"
    /\ Len(paths[1].steps) >= 2
    /\ \E r \in 1..Len(paths[1].steps) : Len(paths[1].steps[r]) >= 2

\* C8: for non-positive rows / cols / layers / inner_layer_cells or a centre
\* void that does not fit, make_maze ends in an error without having
\* performed a growth step and without a maze result.
C8_InvalidRejected ==
    (~Valid(cfg) /\ pc \in {"done", "error"})
        => (pc = "error" /\ stack = <<>> /\ paths = <<>>)

C9Config == RectConfig(6, 6, "centre", None, 0, NoBias)

Adjacent(x, y) ==
    \/ x[1] = y[1] /\ (x[2] = y[2] + 1 \/ y[2] = x[2] + 1)
    \/ x[2] = y[2] /\ (x[1] = y[1] + 1 \/ y[1] = x[1] + 1)

\* C9: for rows = cols = 6, end_type "centre", centre_void None, the cells
\* make_maze marks inside the 6x6 interior are exactly the centred 2x2 block
\* rows 3-4, cols 3-4; the Exit is the cell of that block's edge in the bottom
\* row at mid_col, next to Visited void cells, and not on the outer boundary.
C9_AutoVoid ==
    (cfg = C9Config /\ pc = "setup") =>
        LET marked == {x \in AllCells : ~Boundary(x) /\ cells[x[1]][x[2]] # Unvisited} IN
        /\ marked = {<<3, 3>>, <<3, 4>>, <<4, 3>>, <<4, 4>>}
        /\ VoidSize(cfg) = <<2, 2>>
        /\ Cardinality(ExitCells) = 1
        /\ \A e \in ExitCells :
              /\ e \in marked
              /\ ~Boundary(e)
              /\ \E v \in marked : Adjacent(e, v) /\ cells[v[1]][v[2]] = Visited
        /\ \A x \in marked \ ExitCells : cells[x[1]][x[2]] = Visited

C9_Witness == cfg = C9Config /\ pc = "setup" /\ cells[4][3] = Exit

C10Config == CircConfig(3, 6, 1, 0, NoBias)

\* C10 as claimed: layers=3, inner_layer_cells=6, centre_void=1 gives
\* cells_in_layer = [6, 12, 12, 12].
C10_Claimed ==
    (cfg = C10Config /\ pc = "setup") => cells_in_layer = <<6, 12, 12, 12>>

\* C10 amended: layers=3, inner_layer_cells=6, centre_void=1 gives
\* cells_in_layer = [6, 6, 12, 12] (the floor ratios are 1, 1, 2, the same for
\* both rational bounds of pi); in every circular setup the first entry is
\* inner_layer_cells and the last entry duplicates the one before it.
C10_CellsInLayer ==
    /\ (cfg = C10Config /\ pc = "setup") =>
          /\ cells_in_layer = <<6, 6, 12, 12>>
          /\ \A l \in 0..2 : LayerRatioWith(PiLowNum, PiLowDen, l, 1, 6) = LayerRatio(l, 1, 6)
    /\ (Circ /\ pc = "setup") =>
          /\ Len(cells_in_layer) = cfg.layers + 1
          /\ cells_in_layer[1] = cfg.inner_layer_cells
          /\ cells_in_layer[cfg.layers + 1] = cells_in_layer[cfg.layers]

C10_Witness == cfg = C10Config /\ pc = "setup" /\ Len(cells_in_layer) = 4

(* ------------------- reading the encoder's lines back ------------------ *)
\* a word whose number can be read back ("X--5" cannot)
Readable(w) == ~(w.lead = "-" /\ w.text.minus)

\* twice the number a word carries
WordTwice(w) ==
    (IF w.lead = "-" THEN 0 - 1 ELSE 1) * (IF w.text.minus THEN 0 - 1 ELSE 1)
        * (2 * w.text.whole + (IF w.text.frac = "5" THEN 1 ELSE 0))

HasWord(line, letter) == \E k \in 1..Len(line) : line[k].letter = letter

\* twice the value of the line's word with that letter (0 without one)
Axis(line, letter) ==
    IF HasWord(line, letter)
    THEN WordTwice(line[CHOOSE k \in 1..Len(line) : line[k].letter = letter])
    ELSE 0

IsCode(line, letter, n) == Len(line) >= 1 /\ line[1] = Code(letter, n)

\* a machine running the lines from k on: G90 / G91 switch the mode, G0 / G1
\* move; the result is the position (twice x, twice y) after each relative move
RECURSIVE Replay(_, _, _, _)
Replay(lines, k, pos, rel) ==
    IF k > Len(lines) THEN <<>>
    ELSE IF IsCode(lines[k], "G", 90) THEN Replay(lines, k + 1, pos, FALSE)
    ELSE IF IsCode(lines[k], "G", 91) THEN Replay(lines, k + 1, pos, TRUE)
    ELSE IF IsCode(lines[k], "G", 0) \/ IsCode(lines[k], "G", 1)
    THEN LET to == IF rel
                   THEN <<pos[1] + Axis(lines[k], "X"), pos[2] + Axis(lines[k], "Y")>>
                   ELSE <<IF HasWord(lines[k], "X") THEN Axis(lines[k], "X") ELSE pos[1],
                          IF HasWord(lines[k], "Y") THEN Axis(lines[k], "Y") ELSE pos[2]>>
         IN  (IF rel THEN <<to>> ELSE <<>>) \o Replay(lines, k + 1, to, rel)
    ELSE Replay(lines, k + 1, pos, rel)

\* twice the (x, y) of a grid cell for a job
CellXY(cell, j) ==
    <<2 * (cell[2] - 1) * j.step_size - origin_offset(cfg, j)[1].twice,
      2 * (cell[1] - 1) * j.step_size - origin_offset(cfg, j)[2].twice>>

\* the grid cell fragment i has reached after its run r
RunEnd(i, r) ==
    FragmentWalk(i)[SumTo([k \in 1..Len(paths[i].steps) |-> Len(paths[i].steps[k])], r)]

\* the jobs a fragment is encoded for in the claims about single fragments
FragmentJobs == {Job(s, <<>>, o, PyInt(FeedRate)) : s \in StepSizes, o \in BOOLEAN}

\* C11: for every fragment produced by the growth of a rectangular maze, for
\* every step size and both origins, the encoded lines can be read back, and a
\* machine that replays them is, after the relative move of each run, at the
\* (x, y) of the grid cell the walk reached with that run, starting from the
\* absolute position ((col-1)*step_size - offset_x, (row-1)*step_size - offset_y).
C11_RoundTrip ==
    (Rect /\ Growth) =>
        \A i \in 1..Len(paths), j \in FragmentJobs :
            LET enc == RectEncodePath(cfg, paths[i], j, PyFloat(1))
                rp == Replay(enc, 1, <<0, 0>>, FALSE)
            IN  Len(paths[i].steps) > 0 =>
                  /\ ~RectEncodeRaises(paths[i])
                  /\ \A k \in 1..Len(enc) : \A w \in 1..Len(enc[k]) : Readable(enc[k][w])
                  /\ <<Axis(enc[3], "X"), Axis(enc[3], "Y")>> = CellXY(paths[i].start_cell, j)
                  /\ Len(rp) = Len(paths[i].steps)
                  /\ \A r \in 1..Len(rp) : rp[r] = CellXY(RunEnd(i, r), j)

\* a finished 3x3 maze with a fragment of three or more runs, one of them
\* northwards and one of them longer than one cell
C11_Witness ==
    /\ pc = "done"
    /\ cfg = RectConfig(3, 3, "side", None, 0, NoBias)
    /\ \E i \in 1..Len(paths) :
          /\ Len(paths[i].steps) >= 3
          /\ \E r \in 1..Len(paths[i].steps) : paths[i].steps[r][1] = "N"
          /\ \E r \in 1..Len(paths[i].steps) : Len(paths[i].steps[r]) >= 2
          /\ Len(Replay(RectEncodePath(cfg, paths[i], Job(MaxStepSize, <<>>, TRUE, PyInt(FeedRate)),
                                       PyFloat(1)), 1, <<0, 0>>, FALSE)) >= 3

Letters(line) == [k \in 1..Len(line) |-> line[k].letter]

\* the axis and the sense of a rectangular direction (line 181: increasing
\* row = increasing Y, increasing col = increasing X)
DirAxis(dir) == IF dir \in {"E", "W"} THEN "X" ELSE "Y"

DirSense(dir) == IF dir \in {"E", "S"} THEN 1 ELSE 0 - 1

\* C12: the rectangular encoding of a non-empty fragment is, in order: G90,
\* raise to clearance height, absolute move to the start, plunge to the depth
\* of cut at plunge rate, G91; then exactly one relative G1 per run, along the
\* run's axis only, of magnitude step_size * run_length and at feed rate; then
\* G90 and the raise to clearance height.  For steps ["EEE", "S"] and
\* step_size 5 the moves are X 15 then Y 5.
C12_RectEncoding ==
    (pc = "encoded" /\ Rect /\ Len(paths[1].steps) > 0) =>
        LET st == paths[1].steps
            n == Len(st)
        IN  /\ Len(f) = 5 + n + 2
            /\ f[1] = <<Code("G", 90)>>
            /\ Letters(f[2]) = <<"G", "Z">> /\ IsCode(f[2], "G", 0)
            /\ Axis(f[2], "Z") = job.clearance_height.twice
            /\ Letters(f[3]) = <<"G", "X", "Y">> /\ IsCode(f[3], "G", 0)
            /\ <<Axis(f[3], "X"), Axis(f[3], "Y")>> = CellXY(paths[1].start_cell, job)
            /\ Letters(f[4]) = <<"G", "Z", "F">> /\ IsCode(f[4], "G", 1)
            /\ Axis(f[4], "Z") = job.doc_steps[1].twice
            /\ Axis(f[4], "F") = job.plunge.twice
            /\ f[5] = <<Code("G", 91)>>
            /\ \A k \in 1..n :
                  /\ Letters(f[5 + k]) = <<"G", DirAxis(st[k][1]), "F">>
                  /\ IsCode(f[5 + k], "G", 1)
                  /\ Readable(f[5 + k][2])
                  /\ Axis(f[5 + k], DirAxis(st[k][1]))
                        = DirSense(st[k][1]) * 2 * job.step_size * Len(st[k])
                  /\ Axis(f[5 + k], "F") = job.feed.twice
            /\ f[5 + n + 1] = <<Code("G", 90)>>
            /\ Letters(f[5 + n + 2]) = <<"G", "Z">> /\ IsCode(f[5 + n + 2], "G", 0)
            /\ Axis(f[5 + n + 2], "Z") = job.clearance_height.twice
            /\ (st = <<<<"E", "E", "E">>, <<"S">>>> /\ job.step_size = 5) =>
                  /\ f[6][2] = Word("X", PyInt(15))
                  /\ f[7][2] = Word("Y", PyInt(5))

\* the fragment ["EEE", "S"] encoded with step_size 5
C12_Witness ==
    /\ pc = "encoded"
    /\ Rect
    /\ paths[1].steps = <<<<"E", "E", "E">>, <<"S">>>>
    /\ job.step_size = 5
    /\ Len(f) = 9

\* the positions in the file of the lines that have these letters
LinesLike(letters) == {k \in 1..Len(f) : f[k] # <<>> /\ Letters(f[k]) = letters}

PauseLines == {k \in 1..Len(f) : f[k] = <<Code("M", 0)>>}

PlungeLines == LinesLike(<<"G", "Z", "F">>)

\* the k-th smallest element of a set of positions
Nth(S, k) == CHOOSE x \in S : Cardinality({y \in S : y <= x}) = k

\* C13: the written job is the preamble with exactly one spindle start (M3),
\* then for each depth of cut in list order the blocks of all fragments in
\* fragment order followed by exactly one M0, then the park / spindle stop
\* postamble: there are as many M0 lines as passes, the i-th block of pass d
\* plunges to doc_steps[d] right after the absolute move to the start of
\* fragment i, and every block of pass d lies between the M0 of pass d - 1
\* and the M0 of pass d.
C13_JobOrder ==
    (pc = "written") =>
        LET n == Len(paths)
            docs == job.doc_steps
            size == SumTo([i \in 1..n |->
                            Len(_encode_path(cfg, cells_in_layer, paths[i], job, PyInt(1)))], n)
        IN  /\ Letters(f[1]) = <<"G">> /\ IsCode(f[1], "G", 21)
            /\ f[2] = <<Code("G", 90)>>
            /\ IsCode(f[3], "G", 0) /\ Letters(f[3]) = <<"G", "X", "Y", "Z">>
            /\ IsCode(f[4], "M", 3) /\ Letters(f[4]) = <<"M", "S">>
            /\ Axis(f[4], "S") = job.spindle_speed.twice
            /\ {k \in 1..Len(f) : IsCode(f[k], "M", 3)} = {4}
            /\ Cardinality(PauseLines) = Len(docs)
            /\ Cardinality(PlungeLines) = Len(docs) * n
            /\ Len(f) = 4 + Len(docs) * (size + 1) + 5
            /\ \A d \in 1..Len(docs) :
                  /\ Nth(PauseLines, d) = 4 + d * (size + 1)
                  /\ \A i \in 1..n :
                        LET k == Nth(PlungeLines, (d - 1) * n + i) IN
                        /\ Axis(f[k], "Z") = docs[d].twice
                        /\ f[k - 1] = _encode_path(cfg, cells_in_layer, paths[i], job, docs[d])[3]
                        /\ k < Nth(PauseLines, d)
                        /\ d > 1 => Nth(PauseLines, d - 1) < k - 3
            /\ f[Len(f) - 4] = <<Code("G", 90)>>
            /\ IsCode(f[Len(f) - 3], "G", 0) /\ Letters(f[Len(f) - 3]) = <<"G", "Z">>
            /\ f[Len(f) - 2] = <<Code("G", 0), Code("X", 0), Code("Y", 0)>>
            /\ f[Len(f) - 1] = <<Code("M", 5)>>
            /\ f[Len(f)] = <<Code("M", 30)>>

\* a maze of several fragments written with two passes of different depth
C13_Witness ==
    /\ pc = "written"
    /\ Len(paths) >= 2
    /\ Len(job.doc_steps) = 2
    /\ job.doc_steps[1] # job.doc_steps[2]
    /\ Cardinality(PauseLines) = 2

\* C14: _encode_path of a fragment with zero steps returns the empty list and
\* does not raise, in the rectangular and in the circular encoder, whatever
\* the start cell, step size, depth, feed and origin; a fragment with steps
\* never encodes to the empty list.
C14_EmptyFragment ==
    /\ (pc = "encoded" /\ Len(paths[1].steps) = 0) => f = <<>>
    /\ (pc = "encoded" /\ Len(paths[1].steps) > 0) => f # <<>>
    /\ (pc = "error" /\ stack = <<>> /\ paths # <<>>) => Len(paths[1].steps) > 0

\* the circular encoder called with a fragment that has no steps
C14_Witness ==
    /\ pc = "encoded"
    /\ Circ
    /\ paths[1] = PathPart(<<1, 0>>)
    /\ job.step_size = MaxStepSize
    /\ f = <<>>

\* a cell that lies inside the grid array without index wrap-around
InGrid(x) == 0 <= x[1] /\ x[1] < NRows(cells) /\ 0 <= x[2] /\ x[2] < NCols(cells)

\* the cells the adjacency lookups of the stack top address
Neighbours(top) ==
    [i \in 1..4 |-> Plus(top, _check_points(cfg, cells_in_layer, top)[i])]

\* C15: during growth and backtracking every adjacency lookup (stack top plus
\* a _check_points offset) addresses a cell inside the grid array,
\* rectangular or polar.  In the polar topology every cell on the
\* stack above the entrance has an angular index in [0, cells_in_layer[L])
\* for its layer L; anticlockwise / clockwise are index -1 / +1 modulo the
\* layer's count, and in / out map the index to
\* floor(target_count * index / current_count) one layer in / out.
C15_LookupsInBounds ==
    (pc \in {"growing", "backtracking"}) =>
        LET top == Last(stack) IN
        /\ _check_points(cfg, cells_in_layer, top) # NoPoints
        /\ InGrid(top)
        /\ \A i \in 1..4 : InGrid(Neighbours(top)[i])
        /\ Circ =>
              LET L == top[1] - 1
                  n == cells_in_layer[L + 1]
              IN  /\ \A k \in 2..Len(stack) :
                        /\ stack[k][1] \in 1..cfg.layers
                        /\ 0 <= stack[k][2]
                        /\ stack[k][2] < cells_in_layer[stack[k][1]]
                  /\ Neighbours(top)[1] = <<top[1], (top[2] + n - 1) % n>>
                  /\ Neighbours(top)[2] = <<top[1], (top[2] + 1) % n>>
                  /\ L > 0 => Neighbours(top)[3]
                                = <<top[1] - 1, (cells_in_layer[L] * top[2]) \div n>>
                  /\ Neighbours(top)[4]
                        = <<top[1] + 1, (cells_in_layer[L + 2] * top[2]) \div n>>

\* how often a direction occurs in a candidate list
Count(opts, dir) == Cardinality({k \in 1..Len(opts) : opts[k] = dir})

\* the candidate list _grow builds at the stack top
Candidates == direction_options(cfg, cells_in_layer, cells, Last(stack), last_move)

\* a Growing step whose scans complete and that takes no exit stub
PlainGrowing ==
    /\ pc = "growing"
    /\ Err \notin Around(Last(stack))
    /\ found_exit \/ Exit \notin Around(Last(stack))

\* the configured bias of a direction (0 without a direction bias)
Bias(dir) ==
    IF cfg.direction_bias.is_none \/ ~\E it \in cfg.direction_bias.bias : it[1] = dir
    THEN 0
    ELSE (CHOOSE it \in cfg.direction_bias.bias : it[1] = dir)[2]

\* C16: in a Growing step that takes no exit stub the candidate list holds
\* each direction with an Unvisited neighbour 1 + bias(direction) times, plus
\* straight_on_bias further copies of the last move if that is a candidate,
\* and nothing else; the step moves to a neighbour that was Unvisited, along
\* a candidate, and it returns 'could not move' (to Backtracking, nothing
\* changed) exactly when no neighbour is Unvisited.
C16_Candidates ==
    [][PlainGrowing =>
          LET top == Last(stack)
              open == {i \in 1..4 : Look(cfg, cells_in_layer, cells, top, i) = Unvisited}
          IN  /\ \A i \in 1..4 :
                    Count(Candidates, _directions(cfg)[i])
                      = IF i \in open
                        THEN 1 + Bias(_directions(cfg)[i])
                               + (IF last_move = <<_directions(cfg)[i]>>
                                  THEN cfg.straight_on_bias ELSE 0)
                        ELSE 0
              /\ \A k \in 1..Len(Candidates) :
                    \E i \in 1..4 : Candidates[k] = _directions(cfg)[i]
              /\ (open # {}) =>
                    /\ pc' = "growing"
                    /\ stack' = Append(stack, Last(stack'))
                    /\ \E i \in open :
                          /\ Last(stack') = Neighbours(top)[i]
                          /\ last_move' = <<_directions(cfg)[i]>>
                    /\ Get(cells, Last(stack')) = Unvisited
                    /\ Get(cells', Last(stack')) = Visited
              /\ (open = {}) =>
                    /\ pc' = "backtracking"
                    /\ UNCHANGED <<cells, stack, paths, found_exit, last_move>>]_vars

\* a step with two candidates, one of them the last move, under a direction
\* bias for it and a straight-on bias
C16_Witness ==
    /\ PlainGrowing
    /\ cfg.straight_on_bias = MaxBias
    /\ Bias("N") = MaxBias
    /\ last_move = <<"N">>
    /\ Count(Candidates, "N") = 1 + 2 * MaxBias
    /\ Len(Candidates) > Count(Candidates, "N")

\* C17: in the Backtracking phase with stack length > 2, if the stack-top cell
\* has an Unvisited neighbour nothing is popped, exactly one new fragment
\* starting at that cell is appended and control returns to Growing; otherwise
\* exactly the top cell is popped, the grid is unchanged and the popped cell
\* stays Visited.  A fragment is never created, after the first one, at a
\* cell without an Unvisited neighbour.
C17_BacktrackStep ==
    /\ [][(pc = "backtracking" /\ Len(stack) > 2) =>
            IF Unvisited \in Around(Last(stack))
            THEN /\ stack' = stack
                 /\ paths' = Append(paths, PathPart(Last(stack)))
                 /\ cells' = cells
                 /\ pc' = "growing"
            ELSE /\ stack' = ButLast(stack)
                 /\ paths' = paths
                 /\ cells' = cells
                 /\ Get(cells', Last(stack)) = Visited
                 /\ pc' = "backtracking"]_vars
    /\ [][(Len(paths) >= 1 /\ Len(paths') > Len(paths)) =>
            /\ Len(paths') = Len(paths) + 1
            /\ Unvisited \in Around(Last(paths').start_cell)
            /\ Last(paths').start_cell = Last(stack)]_vars

\* a backtracking phase that has popped at least one cell and now stands, above
\* the stack base, on a cell with an Unvisited neighbour
C17_Witness ==
    /\ pc = "backtracking"
    /\ Len(stack) > 2
    /\ Unvisited \in Around(Last(stack))
    /\ Get(cells, Last(stack)) = Visited
    /\ \E i \in 1..Len(paths) :
          Len(FragmentWalk(i)) > 0 /\ Last(FragmentWalk(i)) \notin {stack[k] : k \in 1..Len(stack)}
                                   /\ Last(FragmentWalk(i)) # ExitCell(cfg)

\* the fragment steps that enter a cell (an exit stub points at the Exit
\* cell and does not enter it)
EntrySites ==
    {s \in UNION {{<<i, j>> : j \in 1..Len(FragmentWalk(i))} : i \in 1..Len(paths)} :
        Get(cells, FragmentWalk(s[1])[s[2]]) # Exit}

\* C18: the walk of a valid maze is loop-free: the stack holds no cell twice,
\* every cell on the stack is Visited, every step that pushes a cell (the
\* forced first step included) pushes one that was Unvisited immediately
\* before, and no cell is entered by two fragment steps.
C18_LoopFree ==
    /\ [](Growth /\ Valid(cfg) =>
            /\ \A a, b \in 1..Len(stack) : a # b => stack[a] # stack[b]
            /\ \A a \in 1..Len(stack) : Get(cells, stack[a]) = Visited
            /\ \A s, t \in EntrySites :
                  s # t => FragmentWalk(s[1])[s[2]] # FragmentWalk(t[1])[t[2]])
    /\ [][(Valid(cfg) /\ Len(stack') > Len(stack)) =>
            Get(cells, Last(stack')) = Unvisited]_vars

\* a rectangular maze with rows >= 2, cols >= 1, no centre void and the exit
\* on the side (the biases of the model are never negative)
PlainRect ==
    /\ Rect
    /\ cfg.rows >= 2
    /\ cfg.cols >= 1
    /\ cfg.centre_void = None
    /\ cfg.end_type = "side"
    /\ cfg.straight_on_bias >= 0
    /\ \A it \in cfg.direction_bias.bias : it[2] >= 0

Interior == {<<r, k>> : r \in 1..cfg.rows, k \in 1..cfg.cols}

\* C19: for a rectangular maze with rows >= 2, cols >= 1, no centre void,
\* end_type "side" and non-negative biases, when growth is Done every interior
\* cell (rows 1..rows, cols 1..cols) is Visited, whatever directions were drawn.
C19_Complete ==
    (pc = "done" /\ PlainRect) => \A x \in Interior : cells[x[1]][x[2]] = Visited

\* a finished 3x3 maze of three or more fragments with every cell Visited
C19_Witness ==
    /\ pc = "done"
    /\ PlainRect
    /\ cfg.rows = 3
    /\ cfg.cols = 3
    /\ Len(paths) >= 3
    /\ \A x \in Interior : cells[x[1]][x[2]] = Visited

\* C20: the grower never produces an empty fragment.  Every fragment in paths
\* at Done has at least one step: during growth only the newest fragment can
\* be empty, and only while the grower stands at its start cell, which has an
\* Unvisited neighbour, about to grow; the Growing step that follows appends
\* a move or the exit stub to it.  So for a grown maze the encoder never
\* returns the empty list for a fragment.
C20_NoEmptyFragment ==
    /\ [](Growth =>
            /\ \A i \in 1..Len(paths) - 1 : Len(paths[i].steps) >= 1
            /\ Len(Last(paths).steps) = 0 =>
                  /\ pc = "growing"
                  /\ Last(paths).start_cell = Last(stack)
                  /\ Unvisited \in Around(Last(stack)))
    /\ [](pc = "done" =>
            \A i \in 1..Len(paths) :
                /\ Len(paths[i].steps) >= 1
                /\ \A j \in FragmentJobs :
                      \/ EncodeRaises(cfg, cells_in_layer, paths[i])
                      \/ _encode_path(cfg, cells_in_layer, paths[i], j, PyFloat(1)) # <<>>)
    /\ [][(pc = "growing" /\ Len(Last(paths).steps) = 0 /\ pc' # "error") =>
            /\ Len(paths') = Len(paths)
            /\ Len(Last(paths').steps) = 1
            /\ Len(Last(paths').steps[1]) = 1]_vars

\* a finished maze of three or more fragments, one of them, begun while
\* backtracking, made of a single step, and encoded to a non-empty block
C20_Witness ==
    /\ pc = "done"
    /\ Len(paths) >= 3
    /\ \E i \in 2..Len(paths) :
          /\ Len(paths[i].steps) = 1
          /\ Len(paths[i].steps[1]) = 1
          /\ ~EncodeRaises(cfg, cells_in_layer, paths[i])
          /\ Len(_encode_path(cfg, cells_in_layer, paths[i],
                              Job(MaxStepSize, <<>>, FALSE, PyInt(FeedRate)), PyFloat(1))) >= 8

\* two angles that differ by whole turns
SameHeading(s, t) == (s[1] * t[2] - t[1] * s[2]) % (s[2] * t[2]) = 0

\* the angle of a grid cell: 2 pi angular_index / cells_in_layer[row - 1]
GridTurn(cell) == <<cell[2], cells_in_layer[cell[1]]>>

\* the runs of the fragments of a polar maze that the encoder can encode
EncodedRuns ==
    {<<i, r>> \in (1..Len(paths)) \X (1..MaxCells + 2) :
        /\ r <= Len(paths[i].steps)
        /\ ~CircEncodeRaises(cells_in_layer, paths[i])}

\* C21: the circular encoder's state agrees with the grid.  For every
\* fragment grown in the polar topology, after each encoded run the tracked
\* layer is row - 1 of the grid cell the walk has reached with that run, and
\* the tracked theta is, up to whole turns,
\* 2 pi angular_index / cells_in_layer[layer] of that cell; radial runs
\* between layers of different cell counts included.
C21_EncoderAgrees ==
    (Circ /\ Growth) =>
        \A s \in EncodedRuns :
            LET last == CircLast(cells_in_layer, paths[s[1]], s[2] + 1)
                cell == RunEnd(s[1], s[2])
            IN  /\ last.layer = cell[1] - 1
                /\ SameHeading(last.theta, GridTurn(cell))

====
